---- MODULE Spec2Model ----
(***************************************************************************)
(* libftrace: the span-stack subscriber (src/src/lib.rs) and the directive *)
(* filter engine (src/src/filter.rs).                                      *)
(*                                                                         *)
(* Strings are tuples of one-character strings, Option<T> is a tuple of    *)
(* length 0 (None) or 1 (Some).                                            *)
(***************************************************************************)
EXTENDS Integers, Sequences, FiniteSets, TLC

VARIABLES
    depth,      \* Subscriber.depth (usize)
    filter,     \* Subscriber.filter (Option<EnvFilter>)
    current,    \* Subscriber.current (VecDeque<SpanMetadata>, front first)
    checks,     \* the build's overflow-checks setting (debug: TRUE, release: FALSE)
    held,       \* the SpanGuard values the caller owns, in order of acquisition
    owed,       \* guards issued by enter_span minus exit_span executions
    lifo,       \* every operation so far kept the guard discipline
    peak,       \* largest number of guards outstanding so far
    last,       \* what the most recent operation did
    fF,         \* filter engine: the filter under evaluation
    fQ,         \* filter engine: the last query and its answer
    pc,         \* threads: where each thread is in its function
    tmp,        \* threads: the value of depth each thread has loaded
    owner,      \* threads: for each span of current, the thread that pushed it
    tparent,    \* threads: the thread whose span a thread's event was nested under
    xpop,       \* threads: a release popped a span another thread pushed
    pIn,        \* parser: the call made (function and argument)
    pOut,       \* parser: what the call returned
    sink,       \* renderer: what render_to wrote to its sink f
    printed,    \* renderer: what render_to wrote with print!
    frames,     \* #[traced]: the instrumented functions being executed
    lp          \* parser: the directive loop of parse, between iterations

vars == <<depth, filter, current, checks, held, owed, lifo, peak, last, fF, fQ,
          pc, tmp, owner, tparent, xpop, pIn, pOut,
          sink, printed, frames, lp>>
subVars == <<depth, filter, current, checks>>
callerVars == <<held, owed, lifo, peak, last>>
engVars == <<fF, fQ>>
thrVars == <<pc, tmp, owner, tparent, xpop>>
parVars == <<pIn, pOut>>
rndVars == <<sink, printed>>
trcVars == <<frames>>
loopVars == <<lp>>

-----------------------------------------------------------------------------
(* Bounds of the model *)

MaxDepth == 2       \* spans on the stack
MaxHeld == 2        \* guards the caller owns at once
MaxBogus == 1       \* exit_span executions beyond the guards issued
MaxDirs == 2        \* directives in a parsed specification
MaxToks == 3        \* tokens concatenated into a filter specification
MaxFilters == 2     \* field filters in a directive
MaxFields == 2      \* entries in a field set

-----------------------------------------------------------------------------
(* Option<T> *)

None == <<>>
Some(x) == <<x>>
is_some(o) == o # <<>>
unwrap(o) == o[1]

-----------------------------------------------------------------------------
(* enum Level, ordered by declaration (derive PartialOrd, Ord) *)

Trace == 0
Debug == 1
Info == 2
Warn == 3
Error == 4
Level == {Trace, Debug, Info, Warn, Error}

-----------------------------------------------------------------------------
(* str operations used by the filter engine *)

Quote == "\""

starts_with(s, p) ==
    /\ Len(p) <= Len(s)
    /\ SubSeq(s, 1, Len(p)) = p

ends_with(s, p) ==
    /\ Len(p) <= Len(s)
    /\ SubSeq(s, Len(s) - Len(p) + 1, Len(s)) = p

contains(s, p) ==
    \E i \in 0..(Len(s) - Len(p)) : SubSeq(s, i + 1, i + Len(p)) = p

RECURSIVE trim_start_matches(_, _)
trim_start_matches(s, c) ==
    IF s # <<>> /\ Head(s) = c THEN trim_start_matches(Tail(s), c) ELSE s

RECURSIVE trim_end_matches(_, _)
trim_end_matches(s, c) ==
    IF s # <<>> /\ s[Len(s)] = c
    THEN trim_end_matches(SubSeq(s, 1, Len(s) - 1), c)
    ELSE s

\* str::trim_matches: every leading and every trailing occurrence is removed
trim_matches(s, c) == trim_end_matches(trim_start_matches(s, c), c)

-----------------------------------------------------------------------------
(* filter.rs: FilterMode, FieldFilter, Directive, EnvFilter *)

FilterMode == {"Equal", "Contains", "StartsWith", "EndsWith"}

FieldFilter(key, mode, value) == [key |-> key, mode |-> mode, value |-> value]

Directive(module, fields, level) ==
    [module |-> module, fields |-> fields, level |-> level]

EnvFilter(directives, default_level) ==
    [directives |-> directives, default_level |-> default_level]

\* FieldSet: Vec of (key, value); the value is its Display text
FieldSet_add(inner, key, value) == Append(inner, <<key, value>>)

SpanMetadata(name, level, fields) ==
    [name |-> name, level |-> level, fields |-> fields]

EventMetadata(message, level, fields) ==
    [message |-> message, level |-> level, fields |-> fields]

\* Iterator::position: index of the first element satisfying the predicate
RECURSIVE position_catch_all(_, _)
position_catch_all(directives, idx) ==
    IF idx > Len(directives) THEN None
    ELSE IF directives[idx].module = None /\ directives[idx].fields = <<>>
         THEN Some(idx)
         ELSE position_catch_all(directives, idx + 1)

\* Vec::remove(idx)
remove(v, idx) == SubSeq(v, 1, idx - 1) \o SubSeq(v, idx + 1, Len(v))

from_directives(directives) ==
    LET pos == position_catch_all(directives, 1)
    IN  IF is_some(pos)
        THEN EnvFilter(remove(directives, unwrap(pos)),
                       Some(directives[unwrap(pos)].level))
        ELSE EnvFilter(directives, None)

EnvFilter_default == from_directives(<<Directive(None, <<>>, Error)>>)

\* faulty variant: the last entry with the key instead of the first
RECURSIVE find_key_last(_, _)
find_key_last(inner, key) ==
    IF inner = <<>> THEN None
    ELSE IF inner[Len(inner)][1] = key THEN Some(inner[Len(inner)])
         ELSE find_key_last(SubSeq(inner, 1, Len(inner) - 1), key)

\* field_set.inner.iter().find(|(k, _)| *k == filter.key)
RECURSIVE find_key(_, _)
find_key(inner, key) ==
    IF inner = <<>> THEN None
    ELSE IF Head(inner)[1] = key THEN Some(Head(inner))
         ELSE find_key(Tail(inner), key)

mode_passes(mode, field_value, value) ==
    CASE mode = "Equal" -> field_value = value
      [] mode = "Contains" -> contains(field_value, value)
      [] mode = "StartsWith" -> starts_with(field_value, value)
      [] mode = "EndsWith" -> ends_with(field_value, value)

RECURSIVE handles_filters(_, _)
handles_filters(filters, inner) ==
    IF filters = <<>> THEN TRUE
    ELSE LET flt == Head(filters)
             found == find_key(inner, flt.key)
         IN  IF ~is_some(found) THEN FALSE
             ELSE LET field_value == trim_matches(unwrap(found)[2], Quote)
                  IN  IF ~mode_passes(flt.mode, field_value, flt.value)
                      THEN FALSE
                      ELSE handles_filters(Tail(filters), inner)

\* faulty variant: one passing field filter is enough
handles_field_set_any(dir, field_set) ==
    \/ dir.fields = <<>>
    \/ \E i \in DOMAIN dir.fields : handles_filters(<<dir.fields[i]>>, field_set)

handles_field_set(dir, field_set) == handles_filters(dir.fields, field_set)

handles_span(dir, span) ==
    IF is_some(dir.module) /\ ~starts_with(span.name, unwrap(dir.module))
    THEN FALSE
    ELSE handles_field_set(dir, span.fields)

directives_for_span(f, span) ==
    SelectSeq(f.directives, LAMBDA dir : handles_span(dir, span))

\* faulty variant: an event without enclosing span is matched on its fields alone
directives_for_event_orphan(f, event, parent_span) ==
    SelectSeq(f.directives,
              LAMBDA dir : /\ \/ ~is_some(parent_span) /\ ~is_some(dir.module)
                              \/ /\ is_some(parent_span)
                                 /\ handles_span(dir, unwrap(parent_span))
                           /\ handles_field_set(dir, event.fields))

\* faulty variant: the event's own fields are not looked at
directives_for_event_parent_only(f, event, parent_span) ==
    SelectSeq(f.directives,
              LAMBDA dir : /\ is_some(parent_span)
                           /\ handles_span(dir, unwrap(parent_span)))

directives_for_event(f, event, parent_span) ==
    SelectSeq(f.directives,
              LAMBDA dir : /\ is_some(parent_span)
                           /\ handles_span(dir, unwrap(parent_span))
                           /\ handles_field_set(dir, event.fields))

\* faulty variant: a directive admits only the levels above its own
RECURSIVE any_admits_strict(_, _)
any_admits_strict(directives, level) ==
    IF directives = <<>> THEN FALSE
    ELSE IF level > Head(directives).level THEN TRUE
         ELSE any_admits_strict(Tail(directives), level)

\* faulty variant: the first applicable directive alone decides
any_admits_first(directives, level) ==
    IF directives = <<>> THEN FALSE
    ELSE level >= Head(directives).level

\* the "for directive in directives" loop of span_enabled / event_enabled
RECURSIVE any_admits(_, _)
any_admits(directives, level) ==
    IF directives = <<>> THEN FALSE
    ELSE IF level >= Head(directives).level THEN TRUE
         ELSE any_admits(Tail(directives), level)

default_admits(f, level) ==
    IF is_some(f.default_level) THEN unwrap(f.default_level) <= level ELSE FALSE

\* faulty variant: the default level is consulted although directives apply
span_enabled_with_default(f, span) ==
    LET directives == directives_for_span(f, span)
    IN  any_admits(directives, span.level) \/ default_admits(f, span.level)

span_enabled(f, span) ==
    LET directives == directives_for_span(f, span)
    IN  IF directives = <<>> THEN default_admits(f, span.level)
        ELSE any_admits(directives, span.level)

event_enabled(f, event, parent_span) ==
    LET directives == directives_for_event(f, event, parent_span)
    IN  IF directives = <<>> THEN default_admits(f, event.level)
        ELSE any_admits(directives, event.level)

-----------------------------------------------------------------------------
(* Inputs of the filter engine *)

str_a == <<"a">>
str_ab == <<"a", "b">>
str_b == <<"b">>
str_x == <<"x">>
str_y == <<"y">>

EngNames == {str_a, str_ab, str_b}
EngFieldSets == {<<>>,
                 FieldSet_add(<<>>, "k", str_x),
                 FieldSet_add(<<>>, "k", str_y)}

\* directives as parse_directive produces them: target absent or non-empty
EngDirectives ==
    {Directive(t, fl, l) :
        t \in {None, Some(str_ab)},
        fl \in {<<>>, <<FieldFilter("k", "Equal", str_x)>>},
        l \in {Debug, Warn}}

EngDirLists == UNION {[1..n -> EngDirectives] : n \in 0..MaxDirs}

\* every EnvFilter is built by from_directives (parse, EnvFilter::default)
EngFilters == {from_directives(ds) : ds \in EngDirLists}

\* one threshold at each of the five levels: as default level, or on a
\* directive with a target
LevelFilters ==
    {from_directives(<<Directive(t, <<>>, l)>>) : t \in {None, Some(str_a)}, l \in Level}

EngSpans ==
    {SpanMetadata(n, l, fs) : n \in EngNames, l \in Level, fs \in EngFieldSets}

EngParents ==
    {None} \cup {Some(SpanMetadata(n, Info, fs)) : n \in EngNames, fs \in EngFieldSets}

EngEvents ==
    {EventMetadata(<<>>, l, fs) : l \in Level, fs \in EngFieldSets}

NoQuery == [kind |-> "none", item |-> None, parent |-> None, enabled |-> FALSE]

NoCall == [fn |-> "none", arg |-> None]
NoLoop == [p |-> None, directives |-> <<>>]
NoResult == [tag |-> "none", val |-> None]

-----------------------------------------------------------------------------
(* usize arithmetic.  The width of usize is the target's pointer width; the *)
(* model takes the 16-bit targets' width.  With overflow checks (debug      *)
(* profile) an overflowing += or -= panics, without them (release profile)  *)
(* it wraps.                                                                *)

UsizeBits == 16
UsizeModulus == 2 ^ UsizeBits

wrapping_add(a, b) == (a + b) % UsizeModulus
wrapping_sub(a, b) == (a - b + UsizeModulus) % UsizeModulus
add_overflows(a, b) == a + b >= UsizeModulus
sub_overflows(a, b) == a < b

-----------------------------------------------------------------------------
(* VecDeque *)

\* faulty variant: the oldest element instead of the newest
back(q) == IF q = <<>> THEN None ELSE Some(q[Len(q)])

front(q) == IF q = <<>> THEN None ELSE Some(Head(q))
push_front(q, x) == <<x>> \o q
pop_front(q) == IF q = <<>> THEN q ELSE Tail(q)

-----------------------------------------------------------------------------
(* render.rs *)

\* faulty variant: the context is built after the increment of depth
RenderContext_after_increment(d, level) == [depth |-> d + 1, level |-> level]

\* RenderContext { depth, level }
RenderContext(d, level) == [depth |-> d, level |-> level]

\* write_ident: "{:<width$}" of the empty string, width = depth * 2
write_ident(cx) == (cx.depth * 2) % UsizeModulus

\* a piece of output: its kind, a number, a key and a text
Tok(kind, n, key, text) == <<kind, n, key, text>>

ident_tok(cx) == Tok("ident", write_ident(cx), "", <<>>)
newline_tok == Tok("newline", 0, "", <<>>)

\* write_gutter: write_ident, then four spaces
write_gutter(cx) == <<ident_tok(cx), Tok("gutter", 4, "", <<>>)>>

\* the for loop of FieldSet::render_to: every entry, and ", " between entries
RECURSIVE field_entries(_, _)
field_entries(inner, cx) ==
    IF inner = <<>> THEN <<>>
    ELSE <<Tok("field", cx.level, Head(inner)[1], Head(inner)[2])>>
            \o (IF Len(inner) > 1 THEN <<Tok("comma", 0, "", <<>>)>> ELSE <<>>)
            \o field_entries(Tail(inner), cx)

\* impl Renderable for FieldSet: what goes to the sink f, and what print!
\* sends to the standard output of the process
FieldSet_render_to(inner, cx) ==
    IF inner = <<>> THEN [f |-> <<>>, stdout |-> <<>>]
    ELSE [f |-> write_gutter(cx) \o <<Tok("with", 0, "", <<>>), newline_tok>>,
          stdout |-> field_entries(inner, cx)]

\* impl Renderable for Location: gutter, "at file:line"
Location_render_to(cx) == write_gutter(cx) \o <<Tok("at", 0, "", <<>>)>>

\* the header line shared by SpanMetadata and EventMetadata: indentation,
\* timestamp, " ", level, "  {name or message}" and the end of the line
header_line(title, cx) ==
    <<ident_tok(cx), Tok("time", 0, "", <<>>), Tok("space", 1, "", <<>>),
      Tok("level", cx.level, "", <<>>), Tok("title", 0, "", title), newline_tok>>

\* the body of render_to of a record with the given title and fields
record_render_to(title, fields, cx) ==
    [f |-> header_line(title, cx) \o FieldSet_render_to(fields, cx).f
                \o Location_render_to(cx) \o <<newline_tok, newline_tok>>,
     stdout |-> FieldSet_render_to(fields, cx).stdout]

SpanMetadata_render_to(metadata, cx) ==
    record_render_to(metadata.name, metadata.fields, cx)

EventMetadata_render_to(metadata, cx) ==
    record_render_to(metadata.message, metadata.fields, cx)

-----------------------------------------------------------------------------
(* Inputs of the subscriber *)

SubSpans ==
    {SpanMetadata(str_a, Info, <<>>),
     SpanMetadata(str_ab, Error, FieldSet_add(<<>>, "k", str_x)),
     SpanMetadata(str_b, Trace, <<>>)}

SubEvents ==
    {EventMetadata(<<>>, Info, <<>>),
     EventMetadata(<<>>, Error, FieldSet_add(<<>>, "k", str_x))}

SubFilters ==
    {EnvFilter_default,
     from_directives(<<Directive(Some(str_a), <<>>, Info)>>),
     from_directives(<<Directive(Some(str_ab),
                                 <<FieldFilter("k", "Equal", str_x)>>, Debug),
                       Directive(None, <<>>, Warn)>>)}

\* what the most recent operation did
Outcome(op, ret, rendered, panicked, cx, parent) ==
    [op |-> op,                 \* the operation
     ret |-> ret,               \* enter_span returned Some(SpanGuard)
     rendered |-> rendered,     \* render_to wrote the record
     panicked |-> panicked,     \* the call unwound
     cx |-> cx,                 \* Option<RenderContext> handed to render_to
     parent |-> parent]         \* front of the stack when the call began

-----------------------------------------------------------------------------
(* Subscriber (lib.rs) *)

\* Subscriber::default()
SubInit ==
    /\ depth = 0
    /\ filter = None
    /\ current = <<>>

\* a caller that owns no guard
CallerInit ==
    /\ held = <<>>
    /\ owed = 0
    /\ lifo = TRUE
    /\ peak = 0
    /\ last = Outcome("init", FALSE, FALSE, FALSE, None, None)

\* faulty variant: the early return is missing
span_filtered_never(metadata) == FALSE

\* faulty variant: without a filter the default filter is consulted
span_filtered_by_default(metadata) ==
    ~span_enabled(IF is_some(filter) THEN unwrap(filter) ELSE EnvFilter_default,
                  metadata)

\* lib.rs:168  filter.as_ref().is_some_and(|f| !f.span_enabled(&metadata))
span_filtered(metadata) ==
    is_some(filter) /\ ~span_enabled(unwrap(filter), metadata)

\* lib.rs:190  filter.as_ref().is_some_and(|f| !f.event_enabled(&metadata, current_span))
event_filtered(metadata, current_span) ==
    is_some(filter) /\ ~event_enabled(unwrap(filter), metadata, current_span)

\* the largest number of guards outstanding under the guard discipline
peak_after(h, ok) == IF ok /\ Len(h) > peak THEN Len(h) ELSE peak

\* faulty variant: the io::Result is dropped instead of unwrapped
unwrap_ignored(sink_ok) == FALSE

\* lib.rs:178, 204  render_to(..).unwrap(): an Err from the sink panics
unwrap_panics(sink_ok) == ~sink_ok

\* enter_span; sink_ok: the write to stdout succeeds
enter_span(metadata, sink_ok) ==
    LET cx == RenderContext(depth, metadata.level)
    IN  IF span_filtered(metadata)
        THEN \* return None
             /\ last' = Outcome("enter_span", FALSE, FALSE, FALSE, None, front(current))
             /\ UNCHANGED <<depth, current, held, owed, lifo, peak>>
        ELSE IF unwrap_panics(sink_ok)
        THEN \* render_to(..).unwrap() panics
             /\ last' = Outcome("enter_span", FALSE, FALSE, TRUE, Some(cx), front(current))
             /\ UNCHANGED <<depth, current, held, owed, lifo, peak>>
        ELSE IF checks /\ add_overflows(depth, 1)
        THEN \* self.depth += 1 panics
             /\ last' = Outcome("enter_span", FALSE, TRUE, TRUE, Some(cx), front(current))
             /\ UNCHANGED <<depth, current, held, owed, lifo, peak>>
        ELSE /\ depth' = wrapping_add(depth, 1)
             /\ current' = push_front(current, metadata)
             /\ held' = Append(held, "enter_span")
             /\ owed' = owed + 1
             /\ peak' = peak_after(held', lifo)
             /\ last' = Outcome("enter_span", TRUE, TRUE, FALSE, Some(cx), front(current))
             /\ UNCHANGED lifo

\* event
event(metadata, sink_ok) ==
    LET current_span == front(current)
        cx == RenderContext(depth, metadata.level)
    IN  /\ IF event_filtered(metadata, current_span)
           THEN last' = Outcome("event", FALSE, FALSE, FALSE, None, current_span)
           ELSE IF unwrap_panics(sink_ok)
           THEN last' = Outcome("event", FALSE, FALSE, TRUE, Some(cx), current_span)
           ELSE last' = Outcome("event", FALSE, TRUE, FALSE, Some(cx), current_span)
        /\ UNCHANGED <<depth, current, held, owed, lifo, peak>>

\* exit_span panics at self.depth -= 1 (after the pop)
exit_panics == checks /\ sub_overflows(depth, 1)

\* faulty variant: depth is decremented but the span stays on the stack
exit_span_no_pop ==
    /\ current' = current
    /\ depth' = IF exit_panics THEN depth ELSE wrapping_sub(depth, 1)
    /\ owed' = owed - 1

\* faulty variant: the oldest span is removed instead of the newest
exit_span_pop_back ==
    /\ current' = IF current = <<>> THEN current
                  ELSE SubSeq(current, 1, Len(current) - 1)
    /\ depth' = IF exit_panics THEN depth ELSE wrapping_sub(depth, 1)
    /\ owed' = owed - 1

\* exit_span
exit_span ==
    /\ current' = pop_front(current)
    /\ depth' = IF exit_panics THEN depth ELSE wrapping_sub(depth, 1)
    /\ owed' = owed - 1

\* faulty variant: installing a filter starts a fresh subscriber
set_filter_reset(f) ==
    /\ filter' = Some(f)
    /\ depth' = 0
    /\ current' = <<>>
    /\ last' = Outcome("set_filter", FALSE, FALSE, FALSE, None, front(current))
    /\ UNCHANGED <<held, owed, lifo, peak>>

\* set_filter
set_filter(f) ==
    /\ filter' = Some(f)
    /\ last' = Outcome("set_filter", FALSE, FALSE, FALSE, None, front(current))
    /\ UNCHANGED <<depth, current, held, owed, lifo, peak>>

-----------------------------------------------------------------------------
(* The caller: what safe code can do with the public items of the crate *)

\* with_subscriber(|s| s.enter_span(..)), the guard kept
EnterSpan ==
    /\ Len(current) < MaxDepth
    /\ Len(held) < MaxHeld
    /\ \E metadata \in SubSpans, sink_ok \in BOOLEAN : enter_span(metadata, sink_ok)
    /\ UNCHANGED <<filter, checks>>

\* event!(..)
Event ==
    /\ \E metadata \in SubEvents, sink_ok \in BOOLEAN : event(metadata, sink_ok)
    /\ UNCHANGED <<filter, checks>>

\* a guard the caller owns goes out of scope: Drop for SpanGuard
ReleaseGuard(i) ==
    /\ owed > -MaxBogus
    /\ exit_span
    /\ held' = remove(held, i)
    /\ lifo' = (lifo /\ i = Len(held))
    /\ last' = Outcome("drop", FALSE, FALSE, exit_panics, None, front(current))
    /\ UNCHANGED <<filter, checks, peak>>

DropGuard == \E i \in DOMAIN held : ReleaseGuard(i)

\* guard.clone(): SpanGuard derives Clone
CloneGuard ==
    /\ held # <<>>
    /\ Len(held) < MaxHeld
    /\ held' = Append(held, "clone")
    /\ lifo' = FALSE
    /\ last' = Outcome("clone", FALSE, FALSE, FALSE, None, front(current))
    /\ UNCHANGED <<depth, filter, current, checks, owed, peak>>

\* the expression SpanGuard: a public unit struct
NewGuard ==
    /\ Len(held) < MaxHeld
    /\ held' = Append(held, "SpanGuard")
    /\ lifo' = FALSE
    /\ last' = Outcome("SpanGuard", FALSE, FALSE, FALSE, None, front(current))
    /\ UNCHANGED <<depth, filter, current, checks, owed, peak>>

\* with_subscriber(|s| s.exit_span(&guard)) on a guard the caller keeps
CallExitSpan ==
    /\ held # <<>>
    /\ owed > -MaxBogus
    /\ exit_span
    /\ lifo' = FALSE
    /\ last' = Outcome("exit_span", FALSE, FALSE, exit_panics, None, front(current))
    /\ UNCHANGED <<filter, checks, held, peak>>

\* set_filter(..)
SetFilter ==
    /\ \E f \in SubFilters : set_filter(f)
    /\ UNCHANGED checks

\* the filter engine and the threads at rest
EngIdle == fF = EnvFilter_default /\ fQ = NoQuery
ThrIdle ==
    /\ pc = <<>>
    /\ tmp = <<>>
    /\ owner = <<>>
    /\ tparent = <<>>
    /\ xpop = FALSE
ParIdle == pIn = NoCall /\ pOut = NoResult
RndIdle == sink = <<>> /\ printed = <<>>
TrcIdle == frames = <<>>
LoopIdle == lp = NoLoop

Init ==
    /\ SubInit
    /\ CallerInit
    /\ checks \in BOOLEAN
    /\ EngIdle
    /\ ThrIdle
    /\ ParIdle
    /\ RndIdle
    /\ TrcIdle
    /\ LoopIdle

Next ==
    \/ EnterSpan /\ UNCHANGED <<engVars, thrVars, parVars, rndVars, trcVars, loopVars>>
    \/ Event /\ UNCHANGED <<engVars, thrVars, parVars, rndVars, trcVars, loopVars>>
    \/ DropGuard /\ UNCHANGED <<engVars, thrVars, parVars, rndVars, trcVars, loopVars>>
    \/ CloneGuard /\ UNCHANGED <<engVars, thrVars, parVars, rndVars, trcVars, loopVars>>
    \/ NewGuard /\ UNCHANGED <<engVars, thrVars, parVars, rndVars, trcVars, loopVars>>
    \/ CallExitSpan /\ UNCHANGED <<engVars, thrVars, parVars, rndVars, trcVars, loopVars>>
    \/ SetFilter /\ UNCHANGED <<engVars, thrVars, parVars, rndVars, trcVars, loopVars>>

Spec == Init /\ [][Next]_vars

-----------------------------------------------------------------------------
(* The filter engine on its own: a filter, and queries put to it *)

QuerySpan ==
    \E span \in EngSpans :
        fQ' = [kind |-> "span", item |-> Some(span), parent |-> None,
               enabled |-> span_enabled(fF, span)]

QueryEvent ==
    \E ev \in EngEvents, parent_span \in EngParents :
        fQ' = [kind |-> "event", item |-> Some(ev), parent |-> parent_span,
               enabled |-> event_enabled(fF, ev, parent_span)]

EngInit ==
    /\ SubInit
    /\ CallerInit
    /\ checks = TRUE
    /\ ThrIdle
    /\ ParIdle
    /\ RndIdle
    /\ TrcIdle
    /\ LoopIdle
    /\ fF \in EngFilters \cup LevelFilters
    /\ fQ = NoQuery

EngNext ==
    \/ QuerySpan /\ UNCHANGED <<fF, subVars, callerVars, thrVars, parVars, rndVars, trcVars, loopVars>>
    \/ QueryEvent /\ UNCHANGED <<fF, subVars, callerVars, thrVars, parVars, rndVars, trcVars, loopVars>>

EngSpec == EngInit /\ [][EngNext]_vars

-----------------------------------------------------------------------------
(* Field matching on its own: a directive with field filters, and a field   *)
(* set handed to handles_field_set                                          *)

str_yx == <<"y", "x">>
str_dev == <<"d", "e", "v">>
str_backend_dev_2 == <<"b", "a", "c", "k", "e", "n", "d", "-", "d", "e", "v", "-", "2">>
str_prod_1 == <<"p", "r", "o", "d", "-", "1">>

FldFieldFilters ==
    {FieldFilter("k", mode, str_x) : mode \in FilterMode}
        \cup {FieldFilter("h", "Equal", str_x),
              FieldFilter("host", "Contains", str_dev)}

\* the Display text of a field value; a value may carry quotes of its own
FldValues == {str_x, str_yx, <<Quote, "x", Quote>>, <<Quote, "x">>,
              <<Quote, Quote, "x", Quote, Quote>>}

FldEntries ==
    {<<"k", v>> : v \in FldValues}
        \cup {<<"h", str_x>>, <<"h", str_y>>,
              <<"host", str_backend_dev_2>>, <<"host", str_prod_1>>}

FldDirectives ==
    {Directive(Some(str_a), fields, Info) :
        fields \in UNION {[1..n -> FldFieldFilters] : n \in 0..MaxFilters}}

\* FieldSet::default(): the field set of a new SpanMetadata / EventMetadata
NewFieldSet == [kind |-> "set", item |-> Some(<<>>), parent |-> None,
                enabled |-> FALSE]

\* with_field(key, value): FieldSet::add
WithField ==
    /\ fQ.kind = "set"
    /\ Len(unwrap(fQ.item)) < MaxFields
    /\ \E entry \in FldEntries :
        fQ' = [fQ EXCEPT !.item =
                  Some(FieldSet_add(unwrap(fQ.item), entry[1], entry[2]))]

\* the finished field set is handed to handles_field_set
HandlesFieldSet ==
    /\ fQ.kind = "set"
    /\ fQ' = [fQ EXCEPT !.kind = "fields",
                        !.enabled = handles_field_set(fF.directives[1],
                                                      unwrap(fQ.item))]

FldInit ==
    /\ SubInit
    /\ CallerInit
    /\ checks = TRUE
    /\ ThrIdle
    /\ ParIdle
    /\ RndIdle
    /\ TrcIdle
    /\ LoopIdle
    /\ fF \in {from_directives(<<dir>>) : dir \in FldDirectives}
    /\ fQ = NewFieldSet

FldNext ==
    \/ WithField /\ UNCHANGED <<fF, subVars, callerVars, thrVars, parVars, rndVars, trcVars, loopVars>>
    \/ HandlesFieldSet /\ UNCHANGED <<fF, subVars, callerVars, thrVars, parVars, rndVars, trcVars, loopVars>>

FldSpec == FldInit /\ [][FldNext]_vars

-----------------------------------------------------------------------------
(* Rendering on its own: a record gets its fields with with_field and is    *)
(* rendered to a sink f                                                     *)

RndLevels == {Info, Error}

\* SpanMetadata::render_to(cx, f)
RenderSpan ==
    /\ fQ.kind = "set"
    /\ \E d \in 0..MaxDepth, level \in RndLevels :
        LET out == SpanMetadata_render_to(
                       SpanMetadata(str_ab, level, unwrap(fQ.item)),
                       RenderContext(d, level))
        IN  /\ sink' = out.f
            /\ printed' = out.stdout
    /\ fQ' = [fQ EXCEPT !.kind = "span"]

\* EventMetadata::render_to(cx, f)
RenderEvent ==
    /\ fQ.kind = "set"
    /\ \E d \in 0..MaxDepth, level \in RndLevels :
        LET out == EventMetadata_render_to(
                       EventMetadata(str_x, level, unwrap(fQ.item)),
                       RenderContext(d, level))
        IN  /\ sink' = out.f
            /\ printed' = out.stdout
    /\ fQ' = [fQ EXCEPT !.kind = "event"]

RndInit ==
    /\ SubInit
    /\ CallerInit
    /\ checks = TRUE
    /\ ThrIdle
    /\ ParIdle
    /\ RndIdle
    /\ TrcIdle
    /\ LoopIdle
    /\ fF = EnvFilter_default
    /\ fQ = NewFieldSet

RndNext ==
    \/ WithField /\ UNCHANGED <<fF, subVars, callerVars, thrVars, parVars, rndVars, trcVars, loopVars>>
    \/ RenderSpan /\ UNCHANGED <<fF, subVars, callerVars, thrVars, parVars, trcVars, loopVars>>
    \/ RenderEvent /\ UNCHANGED <<fF, subVars, callerVars, thrVars, parVars, trcVars, loopVars>>

RndSpec == RndInit /\ [][RndNext]_vars

-----------------------------------------------------------------------------
(* The parser of filter specifications (filter.rs).  A method of Parser     *)
(* yields the parser after the call (p) and what the call returned (r).     *)

AsciiUpper == <<"A", "B", "C", "D", "E", "F", "G", "H", "I", "J", "K", "L", "M",
                "N", "O", "P", "Q", "R", "S", "T", "U", "V", "W", "X", "Y", "Z">>
AsciiLower == <<"a", "b", "c", "d", "e", "f", "g", "h", "i", "j", "k", "l", "m",
                "n", "o", "p", "q", "r", "s", "t", "u", "v", "w", "x", "y", "z">>
AsciiDigit == <<"0", "1", "2", "3", "4", "5", "6", "7", "8", "9">>

chars_of(t) == {t[i] : i \in DOMAIN t}

\* the character classes the parser's closures accept
is_ascii_alphabetic == chars_of(AsciiUpper) \cup chars_of(AsciiLower)
is_ascii_alphanumeric == is_ascii_alphabetic \cup chars_of(AsciiDigit)
is_module_char == is_ascii_alphanumeric \cup {":", "-", "_"}

\* str::to_lowercase on ASCII text
lowercase_char(c) ==
    IF c \in chars_of(AsciiUpper)
    THEN AsciiLower[CHOOSE i \in DOMAIN AsciiUpper : AsciiUpper[i] = c]
    ELSE c

RECURSIVE to_lowercase(_)
to_lowercase(s) ==
    IF s = <<>> THEN <<>>
    ELSE <<lowercase_char(Head(s))>> \o to_lowercase(Tail(s))

name_trace == <<"t", "r", "a", "c", "e">>
name_debug == <<"d", "e", "b", "u", "g">>
name_info == <<"i", "n", "f", "o">>
name_warn == <<"w", "a", "r", "n">>
name_error == <<"e", "r", "r", "o", "r">>

\* the match of Level::try_from; None stands for Err(())
match_level(text) ==
    CASE text = name_trace -> Some(Trace)
      [] text = name_debug -> Some(Debug)
      [] text = name_info -> Some(Info)
      [] text = name_warn -> Some(Warn)
      [] text = name_error -> Some(Error)
      [] OTHER -> None

\* faulty variant: the level name is matched as written
Level_try_from_exact(text) == match_level(text)

Level_try_from(text) == match_level(to_lowercase(text))

\* Result<_, ParseError>, and a panic that unwinds out of parse
Ok(v) == [tag |-> "Ok", val |-> v]
Err(e) == [tag |-> "Err", val |-> e]
Panic == [tag |-> "panic", val |-> None]

MissingLevel == [err |-> "MissingLevel", text |-> <<>>]
InvalidLevel(text) == [err |-> "InvalidLevel", text |-> text]

Parser(slice, idx) == [slice |-> slice, idx |-> idx]

\* self.slice.len() - 1 on usize
eof_panics(p) == checks /\ sub_overflows(Len(p.slice), 1)
eof(p) == p.idx >= wrapping_sub(Len(p.slice), 1)

peek(p) == IF p.idx < Len(p.slice) THEN Some(p.slice[p.idx + 1]) ELSE None

\* faulty variant: the character is recognised but not consumed
check_no_advance(p, c) == [p |-> p, r |-> peek(p) = Some(c)]

check(p, c) ==
    IF peek(p) = Some(c)
    THEN [p |-> Parser(p.slice, p.idx + 1), r |-> TRUE]
    ELSE [p |-> p, r |-> FALSE]

\* the while-let loop of take_while: the index after the accepted run
RECURSIVE run_end(_, _, _)
run_end(slice, idx, accepted) ==
    IF idx < Len(slice) /\ slice[idx + 1] \in accepted
    THEN run_end(slice, idx + 1, accepted)
    ELSE idx

take_while(p, accepted) ==
    LET start == p.idx
        end == run_end(p.slice, p.idx, accepted)
    IN  [p |-> Parser(p.slice, end),
         r |-> IF start = end THEN None
               ELSE Some(SubSeq(p.slice, start + 1, end))]

identifier(p) == take_while(p, is_ascii_alphabetic)

module_name(p) == take_while(p, is_module_char)

\* on an opening quote, ci.next() yields the quote itself at offset 0, so the
\* method returns slice[start..start + 0] and leaves idx where it was
value(p) ==
    IF peek(p) = Some(Quote)
    THEN LET start == p.idx
             first == <<0, p.slice[p.idx + 1]>>
         IN  IF first[2] = Quote
             THEN [p |-> p,
                   r |-> Some(SubSeq(p.slice, start + 1, start + first[1]))]
             ELSE take_while(p, is_ascii_alphanumeric)
    ELSE take_while(p, is_ascii_alphanumeric)

\* self.check(c) && self.check('=')
check_then_eq(p, c) ==
    LET a == check(p, c)
    IN  IF a.r THEN check(a.p, "=") ELSE a

\* the if / else-if chain over the modes of parse_filter, arm by arm
mode_ends_with(p) ==
    LET c == check_then_eq(p, "$")
    IN  [p |-> c.p, r |-> IF c.r THEN Some("EndsWith") ELSE None]

mode_starts_with(p) ==
    LET c == check_then_eq(p, "^")
    IN  IF c.r THEN [p |-> c.p, r |-> Some("StartsWith")] ELSE mode_ends_with(c.p)

mode_contains(p) ==
    LET c == check_then_eq(p, "~")
    IN  IF c.r THEN [p |-> c.p, r |-> Some("Contains")] ELSE mode_starts_with(c.p)

mode_equal(p) ==
    LET c == check(p, "=")
    IN  IF c.r THEN [p |-> c.p, r |-> Some("Equal")] ELSE mode_contains(c.p)

\* parse_filter once the key and the mode are read: the value, or todo!()
filter_value(key_str, mode, v) ==
    IF v.r = None THEN [p |-> v.p, r |-> Panic]
    ELSE [p |-> v.p, r |-> Ok(FieldFilter(key_str, mode, unwrap(v.r)))]

\* parse_filter once the key is read: the mode, or todo!()
filter_mode(key_str, m) ==
    IF m.r = None THEN [p |-> m.p, r |-> Panic]
    ELSE filter_value(key_str, unwrap(m.r), value(m.p))

\* parse_filter after self.identifier(): the key, or todo!()
filter_key(k) ==
    IF k.r = None THEN [p |-> k.p, r |-> Panic]
    ELSE filter_mode(unwrap(k.r), mode_equal(k.p))

parse_filter(p) == filter_key(identifier(p))

\* the "while !self.check(']')" loop of parse_directive
RECURSIVE parse_filters(_, _)

\* the loop body after parse_filter()?: push, then continue on a comma
filters_pushed(fields, comma) ==
    IF comma.r THEN parse_filters(comma.p, fields)
    ELSE [p |-> comma.p, r |-> Ok(fields)]

filters_body(fields, f) ==
    IF f.r.tag # "Ok" THEN f
    ELSE filters_pushed(Append(fields, f.r.val), check(f.p, ","))

filters_head(fields, close) ==
    IF close.r THEN [p |-> close.p, r |-> Ok(fields)]
    ELSE filters_body(fields, parse_filter(close.p))

parse_filters(p, fields) == filters_head(fields, check(p, "]"))

\* parse_directive, lines 274-279: no "=", the module name is taken back
\* out of the directive and read as a level
level_from_module(p, module_str, fields, level) ==
    IF level = None THEN [p |-> p, r |-> Err(InvalidLevel(module_str))]
    ELSE [p |-> p, r |-> Ok(Directive(None, fields, unwrap(level)))]

\* parse_directive, lines 264-267: the level after "="
level_from_token(p, module, fields, level_str, level) ==
    IF level = None THEN [p |-> p, r |-> Err(InvalidLevel(level_str))]
    ELSE [p |-> p, r |-> Ok(Directive(module, fields, unwrap(level)))]

\* parse_directive, lines 260-262: the identifier after "="
level_after_eq(module, fields, level_str) ==
    IF level_str.r = None THEN [p |-> level_str.p, r |-> Err(MissingLevel)]
    ELSE level_from_token(level_str.p, module, fields, unwrap(level_str.r),
                          Level_try_from(unwrap(level_str.r)))

\* parse_directive, lines 258-281; the directive's level starts as Info
directive_level(module, fields, eq) ==
    IF eq.r THEN level_after_eq(module, fields, identifier(eq.p))
    ELSE IF is_some(module)
    THEN level_from_module(eq.p, unwrap(module), fields,
                           Level_try_from(unwrap(module)))
    ELSE [p |-> eq.p, r |-> Ok(Directive(None, fields, Info))]

\* parse_directive, line 255: self.check(']') after the loop
directive_filters(module, l) ==
    IF l.r.tag # "Ok" THEN l
    ELSE directive_level(module, l.r.val, check(check(l.p, "]").p, "="))

\* parse_directive, line 245: if self.check('[')
directive_fields(module, open) ==
    IF open.r THEN directive_filters(module, parse_filters(open.p, <<>>))
    ELSE directive_level(module, <<>>, check(open.p, "="))

directive_module(m) == directive_fields(m.r, check(m.p, "["))

parse_directive(p) == directive_module(module_name(p))

\* one iteration of the "while !parser.eof()" loop of parse: the parser and
\* the directives after it, and what parse returns if the loop ends here
Iteration(p, directives, out) == [p |-> p, directives |-> directives, out |-> out]

\* the loop body after the push: if !parser.check(',') { break; }
loop_pushed(directives, comma) ==
    Iteration(comma.p, directives,
              IF comma.r THEN NoResult ELSE Ok(from_directives(directives)))

\* directives.push(parser.parse_directive()?)
loop_body(directives, d) ==
    IF d.r.tag # "Ok" THEN Iteration(d.p, directives, d.r)
    ELSE loop_pushed(Append(directives, d.r.val), check(d.p, ","))

loop_iteration(p, directives) ==
    IF eof_panics(p) THEN Iteration(p, directives, Panic)
    ELSE IF eof(p) THEN Iteration(p, directives, Ok(from_directives(directives)))
    ELSE loop_body(directives, parse_directive(p))

\* the loop of parse: iterations until one of them ends it
RECURSIVE parse_loop(_, _)

loop_continue(it) ==
    IF it.out.tag = "none" THEN parse_loop(it.p, it.directives) ELSE it.out

parse_loop(p, directives) == loop_continue(loop_iteration(p, directives))

parse(from) == parse_loop(Parser(from, 0), <<>>)

\* env_value: what std::env::var_os returned (ASCII text, which
\* to_string_lossy leaves as it is)
from_env(env_value) ==
    IF env_value = None THEN Ok(EnvFilter_default)
    ELSE IF unwrap(env_value) = <<>> THEN Ok(EnvFilter_default)
    ELSE parse(unwrap(env_value))

-----------------------------------------------------------------------------
(* Inputs of the parser: every concatenation of up to MaxToks tokens, every *)
(* spelling of the five level names, and some longer specifications.        *)

RECURSIVE concat(_)
concat(toks) == IF toks = <<>> THEN <<>> ELSE Head(toks) \o concat(Tail(toks))

ParTokens == {name_info, <<"W", "a", "r", "n">>, str_ab, <<"=">>, <<",">>,
              <<"[", "k", "=", "x", "]">>, <<"[">>, <<"k">>, <<"]">>, <<Quote>>}

ParTokenSpecs ==
    {concat(ts) : ts \in UNION {[1..n -> ParTokens] : n \in 0..MaxToks}}

uppercase_char(c) ==
    IF c \in chars_of(AsciiLower)
    THEN AsciiUpper[CHOOSE i \in DOMAIN AsciiLower : AsciiLower[i] = c]
    ELSE c

\* a name with any of its letters in upper case
AllCases(name) ==
    {[i \in DOMAIN name |-> IF i \in U THEN uppercase_char(name[i]) ELSE name[i]] :
        U \in SUBSET DOMAIN name}

LevelNames == {name_trace, name_debug, name_info, name_warn, name_error}
LevelSpecs == UNION {AllCases(name) : name \in LevelNames}

\* backend=warn,backend::db[name="x"]=trace
spec_quoted ==
    <<"b", "a", "c", "k", "e", "n", "d", "=", "w", "a", "r", "n", ",",
      "b", "a", "c", "k", "e", "n", "d", ":", ":", "d", "b", "[", "n",
      "a", "m", "e", "=", Quote, "x", Quote, "]", "=", "t", "r", "a",
      "c", "e">>
\* backend=warn,backend::db[name=x]=trace
spec_bare ==
    <<"b", "a", "c", "k", "e", "n", "d", "=", "w", "a", "r", "n", ",",
      "b", "a", "c", "k", "e", "n", "d", ":", ":", "d", "b", "[", "n",
      "a", "m", "e", "=", "x", "]", "=", "t", "r", "a", "c", "e">>
\* ab[k=
spec_no_value ==
    <<"a", "b", "[", "k", "=">>
\* ab[k]
spec_no_mode ==
    <<"a", "b", "[", "k", "]">>
\* ab[k~=x,k^=x,k$=x]=Warn
spec_modes ==
    <<"a", "b", "[", "k", "~", "=", "x", ",", "k", "^", "=", "x", ",",
      "k", "$", "=", "x", "]", "=", "W", "a", "r", "n">>
\* ab[k~x]=info
spec_half_mode ==
    <<"a", "b", "[", "k", "~", "x", "]", "=", "i", "n", "f", "o">>
\* info,ab=Warn,debug
spec_two_defaults ==
    <<"i", "n", "f", "o", ",", "a", "b", "=", "W", "a", "r", "n", ",",
      "d", "e", "b", "u", "g">>
\* ab=info,ab=loud
spec_bad_level ==
    <<"a", "b", "=", "i", "n", "f", "o", ",", "a", "b", "=", "l", "o",
      "u", "d">>

ParExamples == {spec_quoted, spec_bare, spec_no_value, spec_no_mode, spec_modes,
                spec_half_mode, spec_two_defaults, spec_bad_level}

ParInputs == ParTokenSpecs \cup LevelSpecs \cup ParExamples

\* RUST_LOG: unset, or set to a text
EnvValues == {None} \cup {Some(text) : text \in ParInputs}

ParCalls ==
    {[fn |-> "parse", arg |-> Some(text)] : text \in ParInputs}
        \cup {[fn |-> "from_env", arg |-> env_value] : env_value \in EnvValues}

Parse ==
    /\ pIn.fn = "parse"
    /\ pOut = NoResult
    /\ pOut' = parse(unwrap(pIn.arg))
    /\ UNCHANGED pIn

FromEnv ==
    /\ pIn.fn = "from_env"
    /\ pOut = NoResult
    /\ pOut' = from_env(pIn.arg)
    /\ UNCHANGED pIn

ParInit ==
    /\ SubInit
    /\ CallerInit
    /\ checks \in BOOLEAN
    /\ EngIdle
    /\ ThrIdle
    /\ RndIdle
    /\ TrcIdle
    /\ LoopIdle
    /\ pIn \in ParCalls
    /\ pOut = NoResult

ParNext ==
    \/ Parse /\ UNCHANGED <<subVars, callerVars, engVars, thrVars, rndVars, trcVars, loopVars>>
    \/ FromEnv /\ UNCHANGED <<subVars, callerVars, engVars, thrVars, rndVars, trcVars, loopVars>>

ParSpec == ParInit /\ [][ParNext]_vars

-----------------------------------------------------------------------------
(* parse, one iteration of its directive loop at a time *)

\* let mut directives = Vec::new(); let mut parser = Parser { slice, idx: 0 }
LoopStart(text) == [p |-> Some(Parser(text, 0)), directives |-> <<>>]

\* parse(from) is called, and runs up to its loop
ParseBegin ==
    /\ pIn = NoCall
    /\ \E text \in ParInputs :
        /\ pIn' = [fn |-> "parse", arg |-> Some(text)]
        /\ lp' = LoopStart(text)
    /\ UNCHANGED pOut

\* from_env is called: the default filter, or parse, up to its loop
FromEnvBegin ==
    /\ pIn = NoCall
    /\ \E env_value \in EnvValues :
        /\ pIn' = [fn |-> "from_env", arg |-> env_value]
        /\ IF env_value = None \/ env_value = Some(<<>>)
           THEN pOut' = Ok(EnvFilter_default) /\ lp' = lp
           ELSE lp' = LoopStart(unwrap(env_value)) /\ pOut' = pOut

\* the loop's test and, unless it ends the loop, its body
LoopIteration ==
    /\ lp # NoLoop
    /\ pOut = NoResult
    /\ \E it \in {loop_iteration(unwrap(lp.p), lp.directives)} :
        /\ lp' = [p |-> Some(it.p), directives |-> it.directives]
        /\ pOut' = it.out
    /\ UNCHANGED pIn

LoopInit ==
    /\ SubInit
    /\ CallerInit
    /\ checks \in BOOLEAN
    /\ EngIdle
    /\ ThrIdle
    /\ RndIdle
    /\ TrcIdle
    /\ LoopIdle
    /\ ParIdle

LoopNext ==
    \/ ParseBegin /\ UNCHANGED <<subVars, callerVars, engVars, thrVars, rndVars, trcVars>>
    \/ FromEnvBegin /\ UNCHANGED <<subVars, callerVars, engVars, thrVars, rndVars, trcVars>>
    \/ LoopIteration /\ UNCHANGED <<subVars, callerVars, engVars, thrVars, rndVars, trcVars>>

\* the caller's thread runs on: weak fairness of LoopNext, with its
\* enabling condition written out (a step is possible exactly as long as no
\* call has returned: the call is made, or the loop goes through an iteration)
LoopFairness == <>[](pOut = NoResult) => []<><<LoopNext>>_vars

LoopSpec == LoopInit /\ [][LoopNext]_vars /\ LoopFairness

-----------------------------------------------------------------------------
(* Threads on the global subscriber.  Subscriber is declared Send and Sync  *)
(* and with_subscriber hands every caller a &mut to the one instance, so    *)
(* the statements of enter_span, event and exit_span of different threads   *)
(* interleave.  Each thread runs one instrumented function: enter its span, *)
(* emit an event, release the guard.                                        *)

Threads == {1, 2}

ThrSpan(t) ==
    IF t = 1 THEN SpanMetadata(str_a, Info, <<>>)
    ELSE SpanMetadata(str_ab, Error, FieldSet_add(<<>>, "k", str_x))

\* the statements between which a thread is inside with_subscriber
InsideOp == {"inc_load", "inc_store", "push", "dec_load", "dec_store"}

\* faulty variant: with_subscriber holds a lock for the duration of the closure
with_subscriber_locked(t) == \A u \in Threads \ {t} : pc[u] \notin InsideOp

\* with_subscriber: get_or_init, then f(&mut *global.inner.get()); nothing
\* keeps a thread out while another one is inside
with_subscriber(t) == TRUE

\* lib.rs:168-178  the filter check and the render of the header
ThrEnterSpan(t) ==
    /\ pc[t] = "enter_span"
    /\ with_subscriber(t)
    /\ pc' = [pc EXCEPT ![t] = IF span_filtered(ThrSpan(t))
                               THEN "event_unguarded" ELSE "inc_load"]
    /\ UNCHANGED <<depth, current, owner, tmp, tparent, xpop>>

\* lib.rs:180  self.depth += 1: the load
ThrIncLoad(t) ==
    /\ pc[t] = "inc_load"
    /\ tmp' = [tmp EXCEPT ![t] = depth]
    /\ pc' = [pc EXCEPT ![t] = "inc_store"]
    /\ UNCHANGED <<depth, current, owner, tparent, xpop>>

\* lib.rs:180  self.depth += 1: the store (a panic on overflow ends the thread)
ThrIncStore(t) ==
    /\ pc[t] = "inc_store"
    /\ IF checks /\ add_overflows(tmp[t], 1)
       THEN /\ pc' = [pc EXCEPT ![t] = "done"]
            /\ UNCHANGED depth
       ELSE /\ depth' = wrapping_add(tmp[t], 1)
            /\ pc' = [pc EXCEPT ![t] = "push"]
    /\ UNCHANGED <<current, owner, tmp, tparent, xpop>>

\* lib.rs:181-183  push_front, Some(SpanGuard)
ThrPush(t) ==
    /\ pc[t] = "push"
    /\ current' = push_front(current, ThrSpan(t))
    /\ owner' = push_front(owner, t)
    /\ pc' = [pc EXCEPT ![t] = "event"]
    /\ UNCHANGED <<depth, tmp, tparent, xpop>>

\* lib.rs:187-205  event: reads the front of the stack and depth
ThrEvent(t) ==
    /\ pc[t] \in {"event", "event_unguarded"}
    /\ with_subscriber(t)
    /\ tparent' = [tparent EXCEPT ![t] = IF owner = <<>> THEN 0 ELSE Head(owner)]
    /\ pc' = [pc EXCEPT ![t] = IF pc[t] = "event" THEN "drop" ELSE "done"]
    /\ UNCHANGED <<depth, current, owner, tmp, xpop>>

\* lib.rs:309, 208  Drop for SpanGuard: exit_span, pop_front
ThrPop(t) ==
    /\ pc[t] = "drop"
    /\ with_subscriber(t)
    /\ current' = pop_front(current)
    /\ owner' = pop_front(owner)
    /\ xpop' = (xpop \/ (owner # <<>> /\ Head(owner) # t))
    /\ pc' = [pc EXCEPT ![t] = "dec_load"]
    /\ UNCHANGED <<depth, tmp, tparent>>

\* lib.rs:209  self.depth -= 1: the load
ThrDecLoad(t) ==
    /\ pc[t] = "dec_load"
    /\ tmp' = [tmp EXCEPT ![t] = depth]
    /\ pc' = [pc EXCEPT ![t] = "dec_store"]
    /\ UNCHANGED <<depth, current, owner, tparent, xpop>>

\* lib.rs:209  self.depth -= 1: the store (a panic on overflow ends the thread)
ThrDecStore(t) ==
    /\ pc[t] = "dec_store"
    /\ depth' = IF checks /\ sub_overflows(tmp[t], 1)
                THEN depth ELSE wrapping_sub(tmp[t], 1)
    /\ pc' = [pc EXCEPT ![t] = "done"]
    /\ UNCHANGED <<current, owner, tmp, tparent, xpop>>

ThrStep(t) ==
    \/ ThrEnterSpan(t)
    \/ ThrIncLoad(t)
    \/ ThrIncStore(t)
    \/ ThrPush(t)
    \/ ThrEvent(t)
    \/ ThrPop(t)
    \/ ThrDecLoad(t)
    \/ ThrDecStore(t)

\* set_filter was called, or not, before the threads start
ThrInit ==
    /\ depth = 0
    /\ current = <<>>
    /\ filter \in {None, Some(EnvFilter_default)}
    /\ checks \in BOOLEAN
    /\ CallerInit
    /\ EngIdle
    /\ ParIdle
    /\ RndIdle
    /\ TrcIdle
    /\ LoopIdle
    /\ pc = [t \in Threads |-> "enter_span"]
    /\ tmp = [t \in Threads |-> 0]
    /\ owner = <<>>
    /\ tparent = [t \in Threads |-> 0]
    /\ xpop = FALSE

ThrNext ==
    \/ \E t \in Threads : ThrEnterSpan(t) /\ UNCHANGED <<filter, checks, callerVars, engVars, parVars, rndVars, trcVars, loopVars>>
    \/ \E t \in Threads : ThrIncLoad(t) /\ UNCHANGED <<filter, checks, callerVars, engVars, parVars, rndVars, trcVars, loopVars>>
    \/ \E t \in Threads : ThrIncStore(t) /\ UNCHANGED <<filter, checks, callerVars, engVars, parVars, rndVars, trcVars, loopVars>>
    \/ \E t \in Threads : ThrPush(t) /\ UNCHANGED <<filter, checks, callerVars, engVars, parVars, rndVars, trcVars, loopVars>>
    \/ \E t \in Threads : ThrEvent(t) /\ UNCHANGED <<filter, checks, callerVars, engVars, parVars, rndVars, trcVars, loopVars>>
    \/ \E t \in Threads : ThrPop(t) /\ UNCHANGED <<filter, checks, callerVars, engVars, parVars, rndVars, trcVars, loopVars>>
    \/ \E t \in Threads : ThrDecLoad(t) /\ UNCHANGED <<filter, checks, callerVars, engVars, parVars, rndVars, trcVars, loopVars>>
    \/ \E t \in Threads : ThrDecStore(t) /\ UNCHANGED <<filter, checks, callerVars, engVars, parVars, rndVars, trcVars, loopVars>>

ThrSpec == ThrInit /\ [][ThrNext]_vars

-----------------------------------------------------------------------------
(* #[traced] (macros/src/traced.rs): the body build_block generates for an  *)
(* instrumented function.  frames is the call stack of instrumented         *)
(* functions, the innermost last; a body may call instrumented functions.   *)

\* a function between its enter_span and the end of its scope
Frame(span, emit_error, emit_return, guard) ==
    [span |-> span,                 \* SpanMetadata::new(target, level) fields
     emit_error |-> emit_error,     \* args.emit_error is Some(_)
     emit_return |-> emit_return,   \* args.emit_return is Some(_)
     guard |-> guard,               \* __guard is Some(SpanGuard)
     pc |-> "body",
     result |-> "none",             \* what the body returned: Ok, Err, panic
     emitted |-> "none"]            \* the event the generated code emitted

top_frame == frames[Len(frames)]

\* ::libftrace::event!(level: #level, #target, ret = format!(..))
ret_event(span) ==
    EventMetadata(span.name, span.level, FieldSet_add(<<>>, "ret", str_x))

\* ::libftrace::error!(#target, error = format!(..))
err_event(span) ==
    EventMetadata(span.name, Error, FieldSet_add(<<>>, "error", str_x))

\* faulty variant: an Err leaves the function as with ?, before its event
block_result_emit_try(emit_error, emit_return, result) ==
    IF result = "Err" THEN "none"
    ELSE IF emit_return THEN "ret" ELSE "none"

\* the match on (args.emit_error, args.emit_return): the event the generated
\* code emits after a body that returned result
block_result_emit(emit_error, emit_return, result) ==
    IF emit_error /\ emit_return
    THEN IF result = "Ok" THEN "ret" ELSE "error"
    ELSE IF emit_error
    THEN IF result = "Ok" THEN "none" ELSE "error"
    ELSE IF emit_return THEN "ret"
    ELSE "none"

\* a panic leaves the innermost function: its locals are dropped next
unwind(fs) ==
    IF fs = <<>> THEN fs
    ELSE [fs EXCEPT ![Len(fs)] = [@ EXCEPT !.pc = "exit", !.result = "panic"]]

\* let __guard = libftrace::with_subscriber(|s| s.enter_span(..))
TrcEnter ==
    /\ frames # <<>> => top_frame.pc = "body"
    /\ Len(frames) < MaxDepth
    /\ \E metadata \in SubSpans, emit_error \in BOOLEAN, emit_return \in BOOLEAN,
          sink_ok \in BOOLEAN :
            /\ enter_span(metadata, sink_ok)
            /\ frames' = IF last'.panicked THEN unwind(frames)
                         ELSE Append(frames, Frame(metadata, emit_error,
                                                   emit_return, last'.ret))
    /\ UNCHANGED <<filter, checks>>

\* (move || #block)(), or #block itself: the body returns (at its end or
\* early, with return or ?) an Ok or an Err, or panics
TrcBody ==
    /\ frames # <<>>
    /\ top_frame.pc = "body"
    /\ \E result \in {"Ok", "Err", "panic"} :
        frames' = [frames EXCEPT ![Len(frames)] =
                      [@ EXCEPT !.result = result,
                                !.pc = IF /\ result # "panic"
                                          /\ block_result_emit(top_frame.emit_error,
                                                 top_frame.emit_return, result) # "none"
                                       THEN "emit" ELSE "exit"]]
    /\ UNCHANGED <<subVars, callerVars>>

\* #ret_event or #err_event
TrcEmit ==
    /\ frames # <<>>
    /\ top_frame.pc = "emit"
    /\ \E sink_ok \in BOOLEAN :
        /\ IF block_result_emit(top_frame.emit_error, top_frame.emit_return,
                                top_frame.result) = "ret"
           THEN event(ret_event(top_frame.span), sink_ok)
           ELSE event(err_event(top_frame.span), sink_ok)
        /\ frames' = [frames EXCEPT ![Len(frames)] =
                         [@ EXCEPT !.emitted = block_result_emit(top_frame.emit_error,
                                                   top_frame.emit_return, top_frame.result),
                                   !.result = IF last'.panicked THEN "panic" ELSE @,
                                   !.pc = "exit"]]
    /\ UNCHANGED <<filter, checks>>

\* the end of the function's scope: __guard is dropped, the function is left
TrcExit ==
    /\ frames # <<>>
    /\ top_frame.pc = "exit"
    /\ IF top_frame.guard
       THEN ReleaseGuard(Len(held))
       ELSE UNCHANGED <<subVars, callerVars>>
    /\ frames' = IF top_frame.result = "panic"
                 THEN unwind(SubSeq(frames, 1, Len(frames) - 1))
                 ELSE SubSeq(frames, 1, Len(frames) - 1)

TrcInit ==
    /\ depth = 0
    /\ current = <<>>
    /\ filter \in {None} \cup {Some(f) : f \in SubFilters}
    /\ checks \in BOOLEAN
    /\ CallerInit
    /\ EngIdle
    /\ ThrIdle
    /\ ParIdle
    /\ RndIdle
    /\ TrcIdle
    /\ LoopIdle

TrcNext ==
    \/ TrcEnter /\ UNCHANGED <<engVars, thrVars, parVars, rndVars, loopVars>>
    \/ TrcBody /\ UNCHANGED <<engVars, thrVars, parVars, rndVars, loopVars>>
    \/ TrcEmit /\ UNCHANGED <<engVars, thrVars, parVars, rndVars, loopVars>>
    \/ TrcExit /\ UNCHANGED <<engVars, thrVars, parVars, rndVars, loopVars>>

TrcSpec == TrcInit /\ [][TrcNext]_vars

-----------------------------------------------------------------------------
(* Properties of the subscriber, checked under Spec *)

\* C1: from the idle subscriber, after spans that the filter enables were
\* entered one inside the other (events in between) and every guard was
\* released in reverse order of entry, depth is 0 and the stack is empty.
\* lifo holds exactly while the caller did nothing but enter spans keeping the
\* guard, emit events, install filters and release the newest guard.
C1_LifoReleaseReturnsToIdle ==
    (lifo /\ held = <<>>) => (depth = 0 /\ current = <<>>)

\* two spans were nested under an installed filter and both guards released
C1_Witness ==
    /\ lifo
    /\ held = <<>>
    /\ peak >= 2
    /\ last.op = "drop"
    /\ is_some(filter)
    /\ depth = 0

\* C2: enter_span with a span the active filter disables returns no guard and
\* leaves depth, the stack, the guards and the exits owed as they were; an
\* event emitted right after is evaluated against the parent the call found.
C2_DisabledSpanChangesNothing ==
    [][/\ \A metadata \in SubSpans, sink_ok \in BOOLEAN :
            (/\ enter_span(metadata, sink_ok)
             /\ is_some(filter)
             /\ ~span_enabled(unwrap(filter), metadata))
            => (/\ ~last'.ret
                /\ ~last'.rendered
                /\ UNCHANGED <<depth, current, held, owed>>)
       /\ (/\ last.op = "enter_span"
           /\ ~last.ret
           /\ ~last.panicked
           /\ Event)
            => last'.parent = last.parent]_vars

\* a span was filtered out inside an active parent span
C2_Witness ==
    /\ last.op = "enter_span"
    /\ ~last.ret
    /\ ~last.panicked
    /\ is_some(filter)
    /\ current # <<>>
    /\ depth = Len(current)

\* C3: exit_span never runs more often than enter_span returned a guard.
C3_ExitsNeverExceedGuards == owed >= 0

\* C4: depth equals the number of spans on the stack.
C4_DepthEqualsStackLen == depth = Len(current)

\* C8: event is evaluated against the front of the stack (none when the stack
\* is empty), is rendered iff no filter is installed or the filter enables it
\* under that parent, and changes neither depth, the stack nor the filter.
C8_EventReadsTopChangesNothing ==
    [][/\ Event => UNCHANGED <<depth, current, filter>>
       /\ \A metadata \in SubEvents, sink_ok \in BOOLEAN :
            event(metadata, sink_ok) =>
                LET top == IF current = <<>> THEN None ELSE Some(current[1])
                    enabled == \/ ~is_some(filter)
                               \/ event_enabled(unwrap(filter), metadata, top)
                IN  /\ last'.parent = top
                    /\ is_some(last'.cx) = enabled
                    /\ last'.rendered = (enabled /\ sink_ok)]_vars

\* an event was filtered out under the newest of two different spans
C8_Witness ==
    /\ last.op = "event"
    /\ ~last.rendered
    /\ ~last.panicked
    /\ Len(current) = 2
    /\ current[1] # current[2]
    /\ last.parent = Some(current[1])

\* C9 as claimed: enter_span with an enabled span whose header cannot be
\* written still pushes the span and increments depth.
C9_BookkeepingDespiteRenderFailure ==
    [][\A metadata \in SubSpans :
            (/\ enter_span(metadata, FALSE)
             /\ ~(is_some(filter) /\ ~span_enabled(unwrap(filter), metadata)))
            => (/\ depth' = wrapping_add(depth, 1)
                /\ current' = <<metadata>> \o current)]_vars

\* C9 amended: a failed write makes the call panic before any bookkeeping:
\* enter_span pushes nothing, leaves depth alone and returns no guard, event
\* changes nothing; depth and stack are as they were before the call.
C9_RenderFailureAbortsBeforeBookkeeping ==
    [][/\ \A metadata \in SubSpans :
            (/\ enter_span(metadata, FALSE)
             /\ ~(is_some(filter) /\ ~span_enabled(unwrap(filter), metadata)))
            => (/\ last'.panicked
                /\ ~last'.ret
                /\ UNCHANGED <<depth, current, held, owed>>)
       /\ \A metadata \in SubEvents :
            (/\ event(metadata, FALSE)
             /\ ~(is_some(filter)
                  /\ ~event_enabled(unwrap(filter), metadata, front(current))))
            => (/\ last'.panicked
                /\ UNCHANGED <<depth, current, held, owed>>)]_vars

\* the header of an enabled span could not be written inside a parent span
C9_Witness ==
    /\ last.op = "enter_span"
    /\ last.panicked
    /\ ~last.rendered
    /\ ~last.ret
    /\ current # <<>>

-----------------------------------------------------------------------------
(* Properties of the filter engine, checked under EngSpec *)

\* the directives a span qualifies: target absent or a prefix of the name,
\* and the field filters match the fields
Qualifies(dir, span) ==
    /\ dir.module = None \/ starts_with(span.name, unwrap(dir.module))
    /\ handles_field_set(dir, span.fields)

\* enabled by a set of qualifying directives, else by the default level
EnabledBy(f, S, level) ==
    IF S = {}
    THEN is_some(f.default_level) /\ unwrap(f.default_level) <= level
    ELSE \E i \in S : f.directives[i].level <= level

\* C5: span_enabled(span) is decided by the directives whose target is absent
\* or a prefix of span.name and whose field filters match span.fields: none,
\* the default level decides; otherwise some such directive has
\* level <= span.level, and the default level is not consulted.
C5_SpanEnabledRule ==
    fQ.kind = "span" =>
        LET span == unwrap(fQ.item)
            S == {i \in DOMAIN fF.directives : Qualifies(fF.directives[i], span)}
        IN  fQ.enabled = EnabledBy(fF, S, span.level)

\* a span is disabled by its directives although the default level admits it
C5_Witness ==
    /\ fQ.kind = "span"
    /\ ~fQ.enabled
    /\ \E i \in DOMAIN fF.directives : Qualifies(fF.directives[i], unwrap(fQ.item))
    /\ is_some(fF.default_level)
    /\ unwrap(fF.default_level) <= unwrap(fQ.item).level

\* C6: an event without enclosing span matches no directive: it is enabled
\* iff the default level exists and is <= the event's level.
C6_OrphanEventDefaultOnly ==
    (fQ.kind = "event" /\ fQ.parent = None) =>
        fQ.enabled = (/\ is_some(fF.default_level)
                      /\ unwrap(fF.default_level) <= unwrap(fQ.item).level)

\* an orphan event is disabled although an untargeted directive matches its
\* fields and admits its level
C6_Witness ==
    /\ fQ.kind = "event"
    /\ fQ.parent = None
    /\ ~fQ.enabled
    /\ \E i \in DOMAIN fF.directives :
        /\ fF.directives[i].module = None
        /\ handles_field_set(fF.directives[i], unwrap(fQ.item).fields)
        /\ fF.directives[i].level <= unwrap(fQ.item).level

\* C7: for an event with an enclosing span a directive qualifies iff it
\* qualifies the enclosing span and its field filters match the event's own
\* fields; the event is then enabled by the rule of spans.
C7_NestedEventRule ==
    (fQ.kind = "event" /\ is_some(fQ.parent)) =>
        LET ev == unwrap(fQ.item)
            S == {i \in DOMAIN fF.directives :
                    /\ Qualifies(fF.directives[i], unwrap(fQ.parent))
                    /\ handles_field_set(fF.directives[i], ev.fields)}
        IN  fQ.enabled = EnabledBy(fF, S, ev.level)

\* an event is disabled by the default rule although a directive that admits
\* its level matches the enclosing span: the event lacks the filtered field
C7_Witness ==
    /\ fQ.kind = "event"
    /\ is_some(fQ.parent)
    /\ ~fQ.enabled
    /\ \E i \in DOMAIN fF.directives :
        /\ Qualifies(fF.directives[i], unwrap(fQ.parent))
        /\ ~handles_field_set(fF.directives[i], unwrap(fQ.item).fields)
        /\ fF.directives[i].level <= unwrap(fQ.item).level

-----------------------------------------------------------------------------
(* Properties of the threads, checked under ThrSpec *)

\* C10: nothing synchronizes the threads on the global subscriber: a thread
\* that has not finished can always take its next step, wherever the other
\* thread stands inside enter_span, event or exit_span.  The witness is an
\* interleaving that corrupts the nesting.
C10_NoThreadEverWaits ==
    \A t \in Threads : pc[t] # "done" => ENABLED ThrStep(t)

\* both threads are done; an event of one thread was nested under the span of
\* the other, a release popped the span the other thread pushed, and depth
\* differs from the number of spans on the stack
C10_Witness ==
    /\ \A t \in Threads : pc[t] = "done"
    /\ \E t \in Threads : tparent[t] \notin {0, t}
    /\ xpop
    /\ depth # Len(current)

-----------------------------------------------------------------------------
(* Properties of the parser, checked under ParSpec *)

\* parse(text) has returned
Parsed(text) == pIn = [fn |-> "parse", arg |-> Some(text)] /\ pOut # NoResult

\* parse or from_env has returned on a specification that is set
Returned == pOut # NoResult /\ is_some(pIn.arg)

str_backend == <<"b", "a", "c", "k", "e", "n", "d">>
str_backend_db == <<"b", "a", "c", "k", "e", "n", "d", ":", ":", "d", "b">>
str_name == <<"n", "a", "m", "e">>

\* C11: a double-quoted field filter value is the text between the quotes and
\* parsing continues after the closing quote: backend=warn,backend::db[name="x"]=trace
\* yields the directives {backend, no filters, Warn} and
\* {backend::db, name Equal x, Trace} in this order, and no default_level.
C11_QuotedValueParsed ==
    Parsed(spec_quoted) =>
        /\ pOut.tag = "Ok"
        /\ pOut.val =
            EnvFilter(<<Directive(Some(str_backend), <<>>, Warn),
                        Directive(Some(str_backend_db),
                                  <<FieldFilter(str_name, "Equal", str_x)>>,
                                  Trace)>>,
                      None)

\* C12: an empty or unset specification yields the default filter
\* (default_level Error, no directives), through from_env (unset or empty
\* variable) and through parse(""); under it a span at Info is disabled and a
\* span at Error is enabled.
C12_EmptySpecYieldsDefault ==
    (/\ pOut # NoResult
     /\ \/ pIn.fn = "from_env" /\ pIn.arg \in {None, Some(<<>>)}
        \/ pIn = [fn |-> "parse", arg |-> Some(<<>>)])
    => /\ pOut.tag = "Ok"
       /\ pOut.val = EnvFilter(<<>>, Some(Error))
       /\ ~span_enabled(pOut.val, SpanMetadata(str_a, Info, <<>>))
       /\ span_enabled(pOut.val, SpanMetadata(str_a, Error, <<>>))

\* the names of the levels as the specification language writes them
NameOf(level) ==
    CASE level = Trace -> name_trace
      [] level = Debug -> name_debug
      [] level = Info -> name_info
      [] level = Warn -> name_warn
      [] level = Error -> name_error

\* C13: a specification that is a single level name, in any letter case,
\* yields an EnvFilter with that level as default_level and an empty
\* directive list.
C13_SingleLevelName ==
    \A level \in Level :
        (Returned /\ unwrap(pIn.arg) \in AllCases(NameOf(level))) =>
            /\ pOut.tag = "Ok"
            /\ pOut.val = EnvFilter(<<>>, Some(level))

\* parse("InFo") returned default_level Info and no directives
C13_Witness ==
    /\ Parsed(<<"I", "n", "F", "o">>)
    /\ pOut.tag = "Ok"
    /\ pOut.val.default_level = Some(Info)
    /\ pOut.val.directives = <<>>

\* C14: parse is total over its error taxonomy: for every input it returns an
\* EnvFilter, MissingLevel or InvalidLevel(text); no input makes it panic.
C14_ParseIsTotal ==
    pOut # NoResult =>
        \/ pOut.tag = "Ok"
        \/ pOut.tag = "Err" /\ pOut.val.err \in {"MissingLevel", "InvalidLevel"}

\* C15: a directive with = in level position: no level token follows, parse
\* fails with MissingLevel; a token that is no level name follows, parse fails
\* with InvalidLevel carrying the token; otherwise the directive gets the
\* named level.  Stated for the specifications target=token with the target
\* absent or ab.
C15_LevelAfterEquals ==
    \A target \in {None, Some(str_ab)}, token \in {<<>>, str_ab, <<"k">>} \cup LevelSpecs :
        Parsed((IF target = None THEN <<>> ELSE unwrap(target)) \o <<"=">> \o token) =>
            IF token = <<>> THEN pOut = Err(MissingLevel)
            ELSE IF token \notin LevelSpecs THEN pOut = Err(InvalidLevel(token))
            ELSE /\ pOut.tag = "Ok"
                 /\ \E level \in Level :
                        /\ token \in AllCases(NameOf(level))
                        /\ pOut.val =
                             IF target = None
                             THEN EnvFilter(<<>>, Some(level))
                             ELSE EnvFilter(<<Directive(target, <<>>, level)>>,
                                            None)

\* C16: the leading identifier of a directive is reinterpreted as a level name
\* exactly when the directive has neither field filters nor an explicit
\* =level: alone, a level name gives the level and any other identifier fails
\* with InvalidLevel carrying it; followed by field filters and no =level it
\* stays the target.
C16_ReinterpretedOnlyWhenBare ==
    \A ident \in {str_ab, name_info, <<"W", "a", "r", "n">>} :
        /\ Parsed(ident) =>
              IF ident \in LevelSpecs
              THEN pOut.tag = "Ok" /\ pOut.val.directives = <<>>
                   /\ is_some(pOut.val.default_level)
              ELSE pOut = Err(InvalidLevel(ident))
        /\ Parsed(ident \o <<"[", "k", "=", "x", "]">>) =>
              /\ pOut.tag = "Ok"
              /\ Len(pOut.val.directives) = 1
              /\ pOut.val.directives[1].module = Some(ident)
              /\ pOut.val.directives[1].fields =
                    <<FieldFilter(<<"k">>, "Equal", str_x)>>

\* C17: the directive list of a constructed EnvFilter holds no directive
\* without target and without field filters: the catch-all is removed and its
\* level stored as default_level.
C17_NoCatchAllInList ==
    (pOut # NoResult /\ pOut.tag = "Ok") =>
        \A i \in DOMAIN pOut.val.directives :
            \/ is_some(pOut.val.directives[i].module)
            \/ pOut.val.directives[i].fields # <<>>

-----------------------------------------------------------------------------
(* Properties of the level thresholds, checked under EngSpec *)

\* C18: Trace < Debug < Info < Warn < Error, and a threshold L, on a directive
\* or as default level, admits an item of level E iff E >= L.
C18_ThresholdAdmitsAtOrAbove ==
    /\ Trace < Debug /\ Debug < Info /\ Info < Warn /\ Warn < Error
    /\ (fQ.kind \in {"span", "event"} /\ fF.directives = <<>>
            /\ is_some(fF.default_level)) =>
          fQ.enabled = (unwrap(fQ.item).level >= unwrap(fF.default_level))
    /\ (fQ.kind = "span" /\ Len(fF.directives) = 1
            /\ Qualifies(fF.directives[1], unwrap(fQ.item))) =>
          fQ.enabled = (unwrap(fQ.item).level >= fF.directives[1].level)

\* a directive with threshold Warn admitted a span at Warn, and the filter
\* has no default level
C18_Witness ==
    /\ fQ.kind = "span"
    /\ Len(fF.directives) = 1
    /\ fF.default_level = None
    /\ Qualifies(fF.directives[1], unwrap(fQ.item))
    /\ fF.directives[1].level = Warn
    /\ unwrap(fQ.item).level = Warn
    /\ fQ.enabled

-----------------------------------------------------------------------------
(* Properties of field matching, checked under FldSpec *)

IsPrefix(w, v) == Len(w) <= Len(v) /\ \A i \in 1..Len(w) : v[i] = w[i]
IsSuffix(w, v) ==
    Len(w) <= Len(v) /\ \A i \in 1..Len(w) : v[Len(v) - Len(w) + i] = w[i]
IsSubstring(w, v) ==
    \E k \in 0..(Len(v) - Len(w)) : \A i \in 1..Len(w) : v[k + i] = w[i]

Satisfies(mode, v, w) ==
    CASE mode = "Equal" -> v = w
      [] mode = "Contains" -> IsSubstring(w, v)
      [] mode = "StartsWith" -> IsPrefix(w, v)
      [] mode = "EndsWith" -> IsSuffix(w, v)

\* the key is present and the value of its first entry satisfies the mode
FilterPasses(flt, field_set) ==
    \E j \in DOMAIN field_set :
        /\ field_set[j][1] = flt.key
        /\ \A i \in 1..(j - 1) : field_set[i][1] # flt.key
        /\ Satisfies(flt.mode, field_set[j][2], flt.value)

NoQuotes(field_set) ==
    \A j \in DOMAIN field_set : Quote \notin chars_of(field_set[j][2])

\* C19: a directive's field filters match a field set iff every filter
\* passes; a filter passes iff its key is present and the field's value
\* satisfies the mode; an absent key fails the directive, zero filters always
\* match.  Contains host dev matches host = backend-dev-2 and not
\* host = prod-1.  (Stated for values that carry no quotes.)
C19_AllFieldFiltersMustPass ==
    (fQ.kind = "fields" /\ NoQuotes(unwrap(fQ.item))) =>
        LET fields == fF.directives[1].fields
            field_set == unwrap(fQ.item)
        IN  /\ fQ.enabled = \A i \in DOMAIN fields : FilterPasses(fields[i], field_set)
            /\ fields = <<>> => fQ.enabled
            /\ fields = <<FieldFilter("host", "Contains", str_dev)>> =>
                  /\ field_set = <<<<"host", str_backend_dev_2>>>> => fQ.enabled
                  /\ field_set = <<<<"host", str_prod_1>>>> => ~fQ.enabled

\* of two field filters the first passes and the key of the second is absent:
\* the directive does not match
C19_Witness ==
    /\ fQ.kind = "fields"
    /\ NoQuotes(unwrap(fQ.item))
    /\ Len(fF.directives[1].fields) = 2
    /\ FilterPasses(fF.directives[1].fields[1], unwrap(fQ.item))
    /\ \A j \in DOMAIN unwrap(fQ.item) :
          unwrap(fQ.item)[j][1] # fF.directives[1].fields[2].key
    /\ ~fQ.enabled

\* one layer of surrounding quotes, removed only when the text is surrounded
StripOneLayer(v) ==
    IF Len(v) >= 2 /\ v[1] = Quote /\ v[Len(v)] = Quote
    THEN SubSeq(v, 2, Len(v) - 1)
    ELSE v

\* C20: before the comparison exactly one layer of surrounding double quotes
\* is stripped from the field value, and only when the value is surrounded by
\* them: ""x"" is compared as "x", a value with a quote at one end only is
\* compared unchanged.
C20_OneLayerOfQuotesStripped ==
    (fQ.kind = "fields" /\ Len(fF.directives[1].fields) = 1
        /\ Len(unwrap(fQ.item)) = 1
        /\ unwrap(fQ.item)[1][1] = fF.directives[1].fields[1].key) =>
        fQ.enabled = Satisfies(fF.directives[1].fields[1].mode,
                               StripOneLayer(unwrap(fQ.item)[1][2]),
                               fF.directives[1].fields[1].value)

\* the entries whose key does not occur earlier in the field set
RECURSIVE FirstOccurrences(_, _)
FirstOccurrences(field_set, seen) ==
    IF field_set = <<>> THEN <<>>
    ELSE IF Head(field_set)[1] \in seen
         THEN FirstOccurrences(Tail(field_set), seen)
         ELSE <<Head(field_set)>>
                \o FirstOccurrences(Tail(field_set), seen \cup {Head(field_set)[1]})

\* C21: field keys are not deduplicated: with_field on a key that is already
\* present appends a second entry after the existing ones; and matching uses
\* the first entry of a key only: the answer is the one for the field set
\* without the later entries of each key.
C21_DuplicateKeysFirstOneDecides ==
    [][/\ (fQ.kind = "set" /\ fQ'.kind = "set") =>
            /\ Len(unwrap(fQ'.item)) = Len(unwrap(fQ.item)) + 1
            /\ SubSeq(unwrap(fQ'.item), 1, Len(unwrap(fQ.item))) = unwrap(fQ.item)
       /\ fQ'.kind = "fields" =>
            fQ'.enabled = handles_field_set(fF.directives[1],
                                            FirstOccurrences(unwrap(fQ'.item), {}))]_vars

\* k was added twice, x first and yx second, and the filter k Equal x matched
C21_Witness ==
    /\ fQ.kind = "fields"
    /\ unwrap(fQ.item) = <<<<"k", str_x>>, <<"k", str_yx>>>>
    /\ fF.directives[1].fields = <<FieldFilter("k", "Equal", str_x)>>
    /\ fQ.enabled

-----------------------------------------------------------------------------
(* Properties of the renderer, checked under RndSpec *)

\* the key: value entries of an output, in the order they were written
RECURSIVE EntriesOf(_)
EntriesOf(out) ==
    IF out = <<>> THEN <<>>
    ELSE (IF Head(out)[1] = "field" THEN <<<<Head(out)[3], Head(out)[4]>>>> ELSE <<>>)
            \o EntriesOf(Tail(out))

HasFieldLine(out) == \E i \in DOMAIN out : out[i][1] = "with"

\* C22: every field attached with with_field appears in the rendered output
\* of its record, written to the sink the record is rendered to, as
\* key: value entries in insertion order, duplicate keys as separate entries;
\* a record with an empty field set has no field line.
C22_FieldsRenderedToSink ==
    fQ.kind \in {"span", "event"} =>
        /\ EntriesOf(sink) = unwrap(fQ.item)
        /\ HasFieldLine(sink) = (unwrap(fQ.item) # <<>>)

-----------------------------------------------------------------------------
(* Properties of the subscriber's indentation, checked under Spec *)

\* C23: enter_span of an enabled span renders the header at the depth held
\* before the call, indented two columns per level of depth, and only then
\* pushes the span and increments depth by exactly 1 (depth is a usize, and
\* so is the width of the indentation); an event is rendered at the depth
\* held when it is emitted, so directly inside a span entered at depth d it
\* is rendered at d + 1; a span that is filtered out changes neither depth
\* nor the stack, so it adds no indentation.
C23_HeaderAtDepthBeforePush ==
    [][/\ \A metadata \in SubSpans, sink_ok \in BOOLEAN :
            enter_span(metadata, sink_ok) =>
                IF last'.ret
                THEN /\ unwrap(last'.cx).depth = depth
                     /\ write_ident(unwrap(last'.cx)) = (2 * depth) % UsizeModulus
                     /\ current' = <<metadata>> \o current
                     /\ depth' = (depth + 1) % UsizeModulus
                ELSE /\ depth' = depth
                     /\ current' = current
       /\ \A metadata \in SubEvents, sink_ok \in BOOLEAN :
            (event(metadata, sink_ok) /\ last'.rendered) =>
                /\ unwrap(last'.cx).depth = depth
                /\ write_ident(unwrap(last'.cx)) = (2 * depth) % UsizeModulus]_vars

\* an event rendered at depth 1, two columns in, directly inside a span that
\* was entered at depth 0 under an installed filter
C23_Witness ==
    /\ last.op = "event"
    /\ last.rendered
    /\ unwrap(last.cx).depth = 1
    /\ write_ident(unwrap(last.cx)) = 2
    /\ Len(current) = 1
    /\ last.parent = Some(current[1])
    /\ is_some(filter)
    /\ lifo
    /\ owed = 1

-----------------------------------------------------------------------------

\* the orders in which a list of n directives can be written
Orders(n) == {p \in [1..n -> 1..n] : \A i, j \in 1..n : p[i] = p[j] => i = j}

\* the filter f with its directive list in the order p
Reordered(f, p) ==
    EnvFilter([i \in DOMAIN f.directives |-> f.directives[p[i]]], f.default_level)

\* C24: the directives are a flat OR, without precedence by position: for
\* every filter and every span or event, span_enabled and event_enabled give
\* the same answer for every permutation of the filter's directive list.
C24_DirectiveOrderIrrelevant ==
    \A p \in Orders(Len(fF.directives)) :
        /\ fQ.kind = "span" =>
              span_enabled(Reordered(fF, p), unwrap(fQ.item)) = fQ.enabled
        /\ fQ.kind = "event" =>
              event_enabled(Reordered(fF, p), unwrap(fQ.item), fQ.parent) = fQ.enabled

\* a span enabled by the second of two directives that both apply to it,
\* while the first one, taken alone, would disable it
C24_Witness ==
    /\ fQ.kind = "span"
    /\ fQ.enabled
    /\ Len(fF.directives) = 2
    /\ \A i \in 1..2 : handles_span(fF.directives[i], unwrap(fQ.item))
    /\ fF.directives[1].level > unwrap(fQ.item).level
    /\ fF.directives[2].level <= unwrap(fQ.item).level

-----------------------------------------------------------------------------

\* the parse error of a directive that is one character long: a letter is
\* an identifier that names no level, = has no level after it
SingleCharError(c) == IF c = "=" THEN MissingLevel ELSE InvalidLevel(<<c>>)

\* C25: every directive of a comma-separated specification is parsed,
\* the last one and a one-character one included: the directive k, alone
\* or last after a comma, fails with InvalidLevel carrying k, the directive
\* = fails with MissingLevel; none is skipped.
C25_NoDirectiveSkipped ==
    \A c \in {"k", "="}, before \in {<<>>, name_info \o <<",">>, str_ab \o <<",">>} :
        Parsed(before \o <<c>>) =>
            IF before = str_ab \o <<",">>
            THEN pOut = Err(InvalidLevel(str_ab))
            ELSE pOut = Err(SingleCharError(c))

-----------------------------------------------------------------------------

\* C27: the release of a guard, whichever of the guards the caller owns,
\* pops the span on top of the stack and decrements depth by exactly 1 (a
\* usize): with two guards outstanding and the older one released first, the
\* span entered last is removed, the older span stays on the stack, and an
\* event emitted afterwards has it as parent.
C27_ReleasePopsTop ==
    [][/\ \A i \in DOMAIN held :
            (ReleaseGuard(i) /\ current # <<>>) =>
                /\ current' = Tail(current)
                /\ depth' = (depth + UsizeModulus - 1) % UsizeModulus
                /\ ~last'.panicked
       /\ \A metadata \in SubEvents, sink_ok \in BOOLEAN :
            event(metadata, sink_ok) => last'.parent = front(current)]_vars

\* two spans were entered and the guard of the first was released first:
\* the span that is left on the stack is the first one
C27_Witness ==
    /\ last.op = "drop"
    /\ ~lifo
    /\ held = <<"enter_span">>
    /\ owed = 1
    /\ depth = 1
    /\ Len(current) = 1
    /\ last.parent # Some(current[1])
    /\ is_some(last.parent)

-----------------------------------------------------------------------------

\* C28: while no filter is installed, every enter_span (whose header can be
\* written) returns a guard, pushes the span and increments depth, and every
\* event (that can be written) is rendered, whatever the level, name and
\* fields; once the default filter is installed, only the records of level
\* Error pass.
C28_NoFilterEverythingEnabled ==
    [][/\ \A metadata \in SubSpans :
            enter_span(metadata, TRUE) =>
                /\ filter = None =>
                      /\ last'.ret /\ last'.rendered
                      /\ current' = <<metadata>> \o current
                      /\ depth' = (depth + 1) % UsizeModulus
                /\ filter = Some(EnvFilter_default) =>
                      last'.ret = (metadata.level = Error)
       /\ \A metadata \in SubEvents :
            event(metadata, TRUE) =>
                /\ filter = None => last'.rendered
                /\ filter = Some(EnvFilter_default) =>
                      last'.rendered = (metadata.level = Error)]_vars

\* without a filter a span of level Trace was entered inside a span of level
\* Info
C28_Witness ==
    /\ filter = None
    /\ last.op = "enter_span"
    /\ last.ret
    /\ Len(current) = 2
    /\ current[1].level = Trace
    /\ current[2].level = Info
    /\ depth = 2

-----------------------------------------------------------------------------

\* C29: set_filter changes the filter and nothing else: depth, the stack and
\* the guards stay as they are; a guard issued before the change pops exactly
\* one span when it is released, also when the filter installed since would
\* disable that span; so while the guards are released newest first, depth
\* and the stack follow the number of guards outstanding, down to depth 0 and
\* an empty stack.
C29_SetFilterKeepsSpans ==
    [][/\ lifo => (Len(current) = Len(held) /\ depth = Len(held))
       /\ \A f \in SubFilters :
            set_filter(f) =>
                /\ filter' = Some(f)
                /\ depth' = depth
                /\ current' = current
                /\ held' = held
       /\ (lifo /\ held # <<>> /\ ReleaseGuard(Len(held))) =>
                /\ current' = Tail(current)
                /\ depth' = depth - 1
                /\ ~last'.panicked]_vars

\* both guards were released, newest first, after a filter was installed
\* that disables the span entered first
C29_Witness ==
    /\ lifo
    /\ held = <<>>
    /\ depth = 0
    /\ current = <<>>
    /\ peak = 2
    /\ last.op = "drop"
    /\ is_some(last.parent)
    /\ is_some(filter)
    /\ ~span_enabled(unwrap(filter), unwrap(last.parent))

-----------------------------------------------------------------------------
(* Properties of #[traced], checked under TrcSpec *)

\* the spans of the functions that hold a guard, the innermost first
RECURSIVE GuardedSpans(_)
GuardedSpans(fs) ==
    IF fs = <<>> THEN <<>>
    ELSE IF fs[Len(fs)].guard
         THEN <<fs[Len(fs)].span>> \o GuardedSpans(SubSeq(fs, 1, Len(fs) - 1))
         ELSE GuardedSpans(SubSeq(fs, 1, Len(fs) - 1))

\* C26: an instrumented function enters its span, runs its body, emits the
\* return or error event that was requested, and exits its span, in this
\* order, however the body is left.  From the enter_span to the end of the
\* function an enabled span is on the stack, above the spans of the callers;
\* the event is emitted with that span as the top of the stack; when the
\* function is left the requested event has been emitted (error for an Err
\* when err is requested, ret for an Ok when ret is requested), and its guard
\* is released, the span popped, also after an Err and after a panic.
C26_TracedOrder ==
    [][/\ current = GuardedSpans(frames)
       /\ depth = Len(current)
       /\ (frames # <<>> /\ top_frame.pc = "emit") =>
             /\ last'.op = "event"
             /\ top_frame.guard => last'.parent = Some(top_frame.span)
             /\ frames'[Len(frames)].emitted # "none"
       /\ (frames # <<>> /\ top_frame.pc = "exit") =>
             /\ (top_frame.result = "Err" /\ top_frame.emit_error) =>
                    top_frame.emitted = "error"
             /\ (top_frame.result = "Ok" /\ top_frame.emit_return) =>
                    top_frame.emitted = "ret"
             /\ top_frame.guard =>
                    /\ Head(current) = top_frame.span
                    /\ current' = Tail(current)
                    /\ depth' = depth - 1
             /\ Len(frames') = Len(frames) - 1]_vars

\* a function called from another one returned an Err: its error event was
\* rendered inside its span, and its guard is about to be released
C26_Witness ==
    /\ Len(frames) = 2
    /\ top_frame.pc = "exit"
    /\ top_frame.result = "Err"
    /\ top_frame.emitted = "error"
    /\ top_frame.guard
    /\ frames[1].guard
    /\ last.op = "event"
    /\ last.rendered
    /\ last.parent = Some(top_frame.span)
    /\ is_some(filter)

-----------------------------------------------------------------------------
(* Termination of parse, checked under LoopSpec *)

\* the parser positions at which the loop "while !self.check(']')" of
\* parse_directive tests its condition, the loop starting at p
RECURSIVE filter_heads(_)

filter_heads_comma(comma) == IF comma.r THEN filter_heads(comma.p) ELSE <<>>

filter_heads_body(f) ==
    IF f.r.tag # "Ok" THEN <<>> ELSE filter_heads_comma(check(f.p, ","))

filter_heads(p) ==
    <<p.idx>> \o (IF check(p, "]").r THEN <<>>
                  ELSE filter_heads_body(parse_filter(p)))

filter_heads_open(open) == IF open.r THEN filter_heads(open.p) ELSE <<>>

\* the same for the directive that an iteration of parse's loop reads at p
DirectiveFilterHeads(p) ==
    IF eof_panics(p) \/ eof(p) THEN <<>>
    ELSE filter_heads_open(check(module_name(p).p, "["))

Increasing(s) == \A i \in 1..(Len(s) - 1) : s[i] < s[i + 1]

\* C30: parse terminates on every input.  An iteration of the directive
\* loop that does not end the loop leaves the parser further on, behind a
\* comma; every round of the field-filter loop in [...] starts further on
\* than the round before; the parser never passes the end of the text; and
\* every call of parse and from_env returns (a filter, an error or a panic).
C30_ParseTerminates ==
    /\ [][(lp # NoLoop /\ lp' # NoLoop /\ pOut' = NoResult) =>
              /\ unwrap(lp'.p).idx > unwrap(lp.p).idx
              /\ unwrap(lp.p).slice[unwrap(lp'.p).idx] = ","]_vars
    /\ [](lp # NoLoop =>
              /\ Increasing(DirectiveFilterHeads(unwrap(lp.p)))
              /\ unwrap(lp.p).idx <= Len(unwrap(lp.p).slice))
    /\ <>(pOut # NoResult)

\* parse has returned after its loop went round at a comma, with two
\* directives read, one of them with a list of field filters
C30_Witness ==
    /\ pOut # NoResult
    /\ lp # NoLoop
    /\ Len(lp.directives) >= 2
    /\ \E i \in DOMAIN lp.directives : Len(lp.directives[i].fields) >= 1
    /\ \E i \in DOMAIN unwrap(lp.p).slice : unwrap(lp.p).slice[i] = ","

====
